---- MODULE Spec2Model ----
(***************************************************************************)
(* Job queue and worker-pool orchestration of the transcriber:             *)
(*   wrappers/queue_manager.py  QueueStatus, QueueItem, QueueManager       *)
(*   wrappers/media_manager.py  download_audio, convert_to_audio and the   *)
(*                              duplicate gate run by the stage threads    *)
(*   core.py                    TranscriptionOrchestrator (dispatch loop,  *)
(*                              worker threads, model pool)                *)
(*   server/api_server.py       cancel / remove / resolve-duplicate        *)
(*   wrappers/db/db_manager.py  the tables queue_items and transcriptions  *)
(*   transcriber.py             the list-driven pipeline service           *)
(*   video_queue.py             VideoProcessingQueue                       *)
(* Every thread of the program is a process of the model; a step of the    *)
(* model is one call of a thread that reads or writes shared state.        *)
(***************************************************************************)
EXTENDS Integers, Sequences, FiniteSets, TLC

\* ------------------------------------------------------------------ bounds
MaxJobs == 2                     \* add_item calls in one run (ids 1..MaxJobs)
MaxIds  == 2                     \* ids in one bulk remove request
MaxLines == 2                    \* lines list.txt holds at most
MaxTasks == 2                    \* pipeline tasks alive at the same time
MaxVideos == 3                   \* VideoQueueItem objects created in one run
MaxUrls == 2                     \* urls in one add_youtube_urls call

Jobs    == 1..MaxJobs
Sources == {"a"}                 \* source locators handed to the stage threads

\* QueueStatus values
QUEUED            == "queued"
DOWNLOADING       == "downloading"
CONVERTING        == "converting"
CONVERTED         == "converted"
TRANSCRIBING      == "transcribing"
COMPLETED         == "completed"
FAILED            == "failed"
SKIPPED           == "skipped"
CANCELLED         == "cancelled"
PENDING_DUPLICATE == "pending_duplicate"

QueueStatus == {QUEUED, DOWNLOADING, CONVERTING, CONVERTED, TRANSCRIBING,
                COMPLETED, FAILED, SKIPPED, CANCELLED, PENDING_DUPLICATE}

\* Python None for the optional fields
NoneMsg  == "<None>"             \* error_message is None
NonePath == <<>>                 \* file_path is None
NonePT   == <<>>                 \* pending_transcription is None

\* error messages the code writes
MsgCancelled    == "cancelled by user"
MsgDupCancelled == "duplicate cancelled by user"
MsgDuplicate    == "duplicate filename"
MsgStageError   == "stage error"         \* subprocess stdout + stderr
MsgException    == "exception"           \* str(e) of the worker's exception

\* A path is <<extension, stem>>; Path(p).stem and the names built from it.
Stem(p)           == p[2]
SrcPath(s)        == <<"src", s>>        \* the locator passed to add_item
OpusPath(s)       == <<"opus", s>>       \* yt-dlp output
OggPath(s)        == <<"ogg", s>>        \* ffmpeg output / existing .ogg
OutputFilename(p) == <<"txt", Stem(p)>>  \* f"{file_stem}.txt"

Range(f) == {f[i] : i \in DOMAIN f}

VARIABLES
  queue,             \* QueueManager.queue: ids in dict insertion order
  processing_order,  \* QueueManager.processing_order
  item,              \* the QueueItem objects, by id (they outlive the queue)
  db_items,          \* table queue_items, by id
  transcriptions,    \* table transcriptions: its rows and the last id given
  stage,             \* position of each job's download/convert thread
  locator,           \* its argument: yt_link of download_audio, file_path
                     \* of convert_to_audio
  model_pool,        \* orchestrator.model_pool: <<[model, busy]>>
  worker_threads,    \* orchestrator.worker_threads: thread objects
  max_workers,       \* orchestrator.max_workers
  video_queue,       \* VideoProcessingQueue.queue: the items, oldest first
  processing_item,   \* VideoProcessingQueue.processing_item: <<>> for None
  queue_file,        \* the json file _save_queue writes
  uuid_count,        \* VideoQueueItem objects created so far (uuid4 ids)
  returned,          \* the value the last VideoProcessingQueue call returned
  d_pc,              \* position of run_orchestration
  available_slots,   \* local of run_orchestration
  ready_items,       \* local of run_orchestration
  cur,               \* locals item, model_idx, model_to_use
  req,               \* the resolve-duplicate requests being served, by thread
  transcription_status,  \* transcriber.py: the global status snapshot
  list_file,         \* transcriber.py: the lines of list.txt
  tasks,             \* transcriber.py: the background tasks added so far
  response           \* transcriber.py: the response to the last request

vars == <<queue, processing_order, item, db_items, transcriptions, stage, locator,
          model_pool, worker_threads, d_pc, available_slots, ready_items,
          cur, req, transcription_status, list_file, tasks, response,
          max_workers, video_queue, processing_item, queue_file, uuid_count,
          returned>>

qvars == <<queue, processing_order, item, db_items>>
dvars == <<d_pc, available_slots, ready_items, cur>>
pvars == <<model_pool, worker_threads>>
tvars == <<transcription_status, list_file, tasks, response>>
vqvars == <<video_queue, processing_item, queue_file, uuid_count, returned>>
xvars == <<req, tvars, max_workers, vqvars>>

\* ------------------------------------------------------------- QueueItem
\* no QueueItem object exists yet for the id
NoItem == [status |-> "absent", file_path |-> NonePath,
           error_message |-> NoneMsg, pending_transcription |-> NonePT]
\* no row of queue_items has the id
NoRec  == [status |-> "absent", file_path |-> NonePath,
           error_message |-> NoneMsg, pending_transcription |-> NonePT]

\* QueueItem.__init__
NewItem(s) == [status |-> QUEUED, file_path |-> SrcPath(s),
               error_message |-> NoneMsg, pending_transcription |-> NonePT]

\* TranscriptionDB.save_queue_item: INSERT OR REPLACE of the item's fields
save_queue_item(db, j, it) ==
  [db EXCEPT ![j] = [status |-> it.status, file_path |-> it.file_path,
                     error_message |-> it.error_message,
                     pending_transcription |-> it.pending_transcription]]

\* QueueItem.update_status: unconditional assignment, then _save_to_db
update_status(it, new_status, error_message) ==
  [it EXCEPT !.status = new_status, !.error_message = error_message]

InQueue(j) == \E i \in DOMAIN queue : queue[i] = j
Created(j) == item[j].status # "absent"

\* QueueItem.mark_failed
mark_failed_NoMessage(it, error) == update_status(it, FAILED, NoneMsg)
mark_failed(it, error) == update_status(it, FAILED, error)

\* item.update_status(...) on the object, whoever holds it
UpdateStatus(j, new_status, error_message) ==
  /\ item' = [item EXCEPT ![j] = update_status(item[j], new_status, error_message)]
  /\ db_items' = save_queue_item(db_items, j, item'[j])
  /\ UNCHANGED <<queue, processing_order>>

\* QueueManager.get_all_items_by_status
get_all_items_by_status(s) ==
  SelectSeq(queue, LAMBDA j : item[j].status = s)

\* QueueManager.get_ready_items_for_transcription
ready_statuses_WithPending == {CONVERTED, SKIPPED, PENDING_DUPLICATE}
ready_statuses == {CONVERTED, SKIPPED}
get_ready_items_for_transcription ==
  SelectSeq(queue, LAMBDA j : item[j].status \in ready_statuses)

\* QueueManager.can_cancel_item / can_remove_item
cancel_states == {QUEUED, DOWNLOADING, CONVERTING, TRANSCRIBING}
can_cancel_item(j) == InQueue(j) /\ item[j].status \in cancel_states
final_states == {COMPLETED, FAILED, CANCELLED, SKIPPED}
can_remove_item(j) == InQueue(j) /\ item[j].status \in final_states

\* ------------------------------------------------- table transcriptions
\* A row is (id, filename, content, queue_item_id); id is INTEGER PRIMARY KEY
\* AUTOINCREMENT, so a new row gets an id above every id given before, and
\* filename carries no UNIQUE constraint.
StoredRow(n) == [id |-> n, filename |-> OutputFilename(OggPath("a")),
                 content |-> "stored", queue_item_id |-> 0]
MaxId(rows) ==
  IF rows = {} THEN 0
  ELSE CHOOSE n \in {r.id : r \in rows} : \A r \in rows : r.id <= n
Table(rows) == [rows |-> rows, seq |-> MaxId(rows)]

\* TranscriptionDB.transcription_exists
transcription_exists(f) == \E r \in transcriptions.rows : r.filename = f

\* TranscriptionDB.get_all_transcriptions: the rows ORDER BY id DESC
RECURSIVE ByIdDesc(_)
ByIdDesc(rows) ==
  IF rows = {} THEN <<>>
  ELSE LET r == CHOOSE x \in rows : x.id = MaxId(rows)
       IN <<r>> \o ByIdDesc(rows \ {r})
get_all_transcriptions(t) == ByIdDesc(t.rows)

\* TranscriptionDB.delete_transcription: DELETE ... WHERE id = ?
delete_transcription(t, transcription_id) ==
  [t EXCEPT !.rows = {r \in @ : r.id # transcription_id}]

\* TranscriptionDB.add_transcription: a plain INSERT
add_transcription(t, filename, content, queue_item_id) ==
  [rows |-> t.rows \cup {[id |-> t.seq + 1, filename |-> filename,
                          content |-> content,
                          queue_item_id |-> queue_item_id]},
   seq |-> t.seq + 1]


\* ------------------------------------------------------------------ Init
NoCur == [itm |-> 0, mdl_idx |-> 0, mdl |-> 0]

\* the threads of the api server that serve a resolve-duplicate request
Requests == {1, 2}
NoReq == [pc |-> "none", itm |-> 0, action |-> "none", code |-> 0,
          error |-> "none", filename |-> <<>>, existing_id |-> 0,
          content |-> "None"]

\* transcriber.py: get_initial_transcription_status; progress "d/t" is <<d, t>>
get_initial_transcription_status ==
  [status |-> "idle", progress |-> <<0, 0>>, processed_videos |-> <<>>,
   failed_urls |-> <<>>]
NoResponse == [op |-> "none", code |-> 0, status |-> "none"]

\* no call of the VideoProcessingQueue was made yet
NoCall == [op |-> "none", value |-> <<>>]

\* queue_file does not exist
NoFile == [queue |-> <<>>, processing_item |-> <<>>]

\* the state after construction, but for the number of workers
InitState ==
  /\ queue = <<>>
  /\ processing_order = <<>>
  /\ item = [j \in Jobs |-> NoItem]
  /\ db_items = [j \in Jobs |-> NoRec]
  /\ transcriptions \in {Table({}), Table({StoredRow(1)})}
  /\ stage = [j \in Jobs |-> "new"]
  /\ locator = [j \in Jobs |-> "none"]
  /\ model_pool = <<>>
  /\ worker_threads = <<>>
  /\ d_pc = "prune"
  /\ available_slots = 0
  /\ ready_items = <<>>
  /\ cur = NoCur
  /\ req = [r \in Requests |-> NoReq]
  /\ transcription_status = get_initial_transcription_status
  /\ list_file = <<>>
  /\ tasks = <<>>
  /\ response = NoResponse
  /\ video_queue = <<>>
  /\ processing_item = <<>>
  /\ queue_file = NoFile
  /\ uuid_count = 0
  /\ returned = NoCall

\* TranscriptionOrchestrator.__init__: self.max_workers = 2
Init == InitState /\ max_workers = 2

\* ------------------------------------- stage threads (media_manager.py)
\* QueueManager.add_item: a fresh id (uuid4), QUEUED, appended and saved.
\* No check is made against the sources already queued.
add_item(j, s) ==
  /\ queue' = Append(queue, j)
  /\ processing_order' = Append(processing_order, j)
  /\ item' = [item EXCEPT ![j] = NewItem(s)]
  /\ db_items' = save_queue_item(db_items, j, item'[j])

NextId == CHOOSE j \in Jobs : ~Created(j) /\ \A k \in Jobs : k < j => Created(k)

\* download_audio(yt_link) up to and including add_item; file_exists is
\* the outcome of check_file_exists.
DownloadAudioStart(s, file_exists) ==
  /\ \E j \in Jobs : ~Created(j)
  /\ LET j == NextId IN
       /\ add_item(j, s)
       /\ stage' = [stage EXCEPT ![j] = IF file_exists THEN "sk_status" ELSE "dl_status"]
       /\ locator' = [locator EXCEPT ![j] = s]
  /\ UNCHANGED <<transcriptions, pvars, dvars>>
  /\ UNCHANGED xvars

\* convert_to_audio(file_path) up to and including add_item
ConvertToAudioStart(s, file_exists) ==
  /\ \E j \in Jobs : ~Created(j)
  /\ LET j == NextId IN
       /\ add_item(j, s)
       /\ stage' = [stage EXCEPT ![j] = IF file_exists THEN "sk_status" ELSE "cv_status"]
       /\ locator' = [locator EXCEPT ![j] = s]
  /\ UNCHANGED <<transcriptions, pvars, dvars>>
  /\ UNCHANGED xvars

\* update_item_path(item_id, p), then
\* conversion_queue.get_item(item_id).update_status(...): get_item returns
\* None once the item was removed, the call raises and the thread ends.
\* The two calls follow each other without a blocking call in between and
\* are one step of the thread.
StageUpdate(j, p, new_status, error_message, next) ==
  IF InQueue(j)
    THEN /\ item' = [item EXCEPT ![j] =
                 update_status([item[j] EXCEPT !.file_path = p],
                               new_status, error_message)]
         /\ db_items' = save_queue_item(db_items, j, item'[j])
         /\ UNCHANGED <<queue, processing_order>>
         /\ stage' = [stage EXCEPT ![j] = next]
    ELSE /\ stage' = [stage EXCEPT ![j] = "done"]
         /\ UNCHANGED qvars

\* skip branch: update_item_path(existing file), update_status(SKIPPED)
SkipStatus(j) ==
  /\ stage[j] = "sk_status"
  /\ StageUpdate(j, OggPath(locator[j]), SKIPPED, NoneMsg, "dupcheck")
  /\ UNCHANGED <<locator, transcriptions, pvars, dvars>>
  /\ UNCHANGED xvars

\* download_audio: update_status(DOWNLOADING), then yt-dlp runs
DownloadStatus(j) ==
  /\ stage[j] = "dl_status"
  /\ StageUpdate(j, item[j].file_path, DOWNLOADING, NoneMsg, "downloading")
  /\ UNCHANGED <<locator, transcriptions, pvars, dvars>>
  /\ UNCHANGED xvars

\* yt-dlp returned: non-zero exit or no .opus file -> mark_failed;
\* else update_item_path(opus_file), update_status(CONVERTING), ffmpeg runs
DownloadDone(j, ok) ==
  /\ stage[j] = "downloading"
  /\ IF ok
       THEN StageUpdate(j, OpusPath(locator[j]), CONVERTING, NoneMsg, "converting")
       ELSE StageUpdate(j, item[j].file_path, FAILED, MsgStageError, "done")
  /\ UNCHANGED <<locator, transcriptions, pvars, dvars>>
  /\ UNCHANGED xvars

\* convert_to_audio: update_status(CONVERTING), then ffmpeg runs
ConvertStatus(j) ==
  /\ stage[j] = "cv_status"
  /\ StageUpdate(j, item[j].file_path, CONVERTING, NoneMsg, "converting")
  /\ UNCHANGED <<locator, transcriptions, pvars, dvars>>
  /\ UNCHANGED xvars

\* ffmpeg returned: update_item_path(ogg), update_status(CONVERTED), or
\* mark_failed
ConvertDone(j, ok) ==
  /\ stage[j] = "converting"
  /\ IF ok
       THEN StageUpdate(j, OggPath(locator[j]), CONVERTED, NoneMsg, "dupcheck")
       ELSE StageUpdate(j, item[j].file_path, FAILED, MsgStageError, "done")
  /\ UNCHANGED <<locator, transcriptions, pvars, dvars>>
  /\ UNCHANGED xvars

\* check_for_duplicate_after_conversion, up to the update_status call
check_for_duplicate_after_conversion(j) ==
  /\ stage[j] = "dupcheck"
  /\ IF ~InQueue(j) \/ item[j].file_path = NonePath
       THEN /\ stage' = [stage EXCEPT ![j] = "done"]
            /\ UNCHANGED qvars
       ELSE IF transcription_exists(OutputFilename(item[j].file_path))
         THEN /\ UpdateStatus(j, PENDING_DUPLICATE, MsgDuplicate)
              /\ stage' = [stage EXCEPT ![j] = "dup_payload"]
         ELSE /\ stage' = [stage EXCEPT ![j] = "done"]
              /\ UNCHANGED qvars
  /\ UNCHANGED <<locator, transcriptions, pvars, dvars>>
  /\ UNCHANGED xvars

\* ... and its assignment of item.pending_transcription (no save)
SetPendingTranscription(j) ==
  /\ stage[j] = "dup_payload"
  /\ item' = [item EXCEPT ![j].pending_transcription =
                <<[filename |-> OutputFilename(item[j].file_path),
                   content |-> "None"]>>]
  /\ stage' = [stage EXCEPT ![j] = "done"]
  /\ UNCHANGED <<queue, processing_order, db_items, locator, transcriptions, pvars,
                 dvars>>
  /\ UNCHANGED xvars

Stage ==
  \/ \E s \in Sources, e \in BOOLEAN : DownloadAudioStart(s, e)
  \/ \E s \in Sources, e \in BOOLEAN : ConvertToAudioStart(s, e)
  \/ \E j \in Jobs : SkipStatus(j)
  \/ \E j \in Jobs : DownloadStatus(j)
  \/ \E j \in Jobs, ok \in BOOLEAN : DownloadDone(j, ok)
  \/ \E j \in Jobs : ConvertStatus(j)
  \/ \E j \in Jobs, ok \in BOOLEAN : ConvertDone(j, ok)
  \/ \E j \in Jobs : check_for_duplicate_after_conversion(j)
  \/ \E j \in Jobs : SetPendingTranscription(j)

\* ------------------------------------------ run_orchestration (core.py)
svars == <<stage, locator>>

Alive(t) == t.pc # "dead"
DeadThread == [itm |-> 0, mdl_idx |-> 0, mdl |-> 0, pc |-> "dead"]

\* a model object that no pool entry and no thread refers to
ModelIds == 1..(2 * max_workers + 1)
ModelsInUse == {model_pool[i].model : i \in DOMAIN model_pool}
                 \cup {worker_threads[i].mdl : i \in DOMAIN worker_threads}
                 \cup {cur.mdl}
create_whisper_model ==
  CHOOSE m \in ModelIds : m \notin ModelsInUse /\
                          \A n \in ModelIds : n < m => n \in ModelsInUse

\* line 104: the pool may still grow
PoolHasRoom(pool) == Len(pool) < max_workers

\* line 99-103: the index of the first entry that is not busy, 0 for None
FreeIdx_IgnoreBusy(pool) == IF pool = <<>> THEN 0 ELSE 1
FreeIdx(pool) ==
  LET free == {i \in DOMAIN pool : ~pool[i].busy}
  IN IF free = {} THEN 0 ELSE CHOOSE i \in free : \A k \in free : i <= k

active_statuses == {QUEUED, DOWNLOADING, CONVERTING, TRANSCRIBING}

\* line 85-88: drop the finished threads, count the free slots
Prune_SpareSlot ==
  /\ d_pc = "prune"
  /\ LET alive == SelectSeq(worker_threads, Alive)
         slots == max_workers + 1 - Len(alive)
     IN /\ worker_threads' = alive
        /\ available_slots' = slots
        /\ d_pc' = IF slots > 0 THEN "converted" ELSE "idle"
  /\ UNCHANGED <<qvars, svars, transcriptions, model_pool, ready_items, cur>>
  /\ UNCHANGED xvars
Prune ==
  /\ d_pc = "prune"
  /\ LET alive == SelectSeq(worker_threads, Alive)
         slots == max_workers - Len(alive)
     IN /\ worker_threads' = alive
        /\ available_slots' = slots
        /\ d_pc' = IF slots > 0 THEN "converted" ELSE "idle"
  /\ UNCHANGED <<qvars, svars, transcriptions, model_pool, ready_items, cur>>
  /\ UNCHANGED xvars

\* line 90
BuildConverted ==
  /\ d_pc = "converted"
  /\ ready_items' = get_all_items_by_status(CONVERTED)
  /\ d_pc' = "skipped"
  /\ UNCHANGED <<qvars, svars, transcriptions, pvars, available_slots, cur>>
  /\ UNCHANGED xvars

\* line 91-92
BuildSkipped ==
  /\ d_pc = "skipped"
  /\ ready_items' = ready_items \o get_all_items_by_status(SKIPPED)
  /\ d_pc' = "loop"
  /\ UNCHANGED <<qvars, svars, transcriptions, pvars, available_slots, cur>>
  /\ UNCHANGED xvars

\* line 98-115, the section under pool_lock: take the first free model, or
\* create one while the pool has room, or find none (ok = FALSE, the break)
AcquireModel_AlwaysCreate(pool) ==
  [ok |-> TRUE,
   pool |-> Append(pool, [model |-> create_whisper_model, busy |-> TRUE]),
   mdl_idx |-> Len(pool) + 1, mdl |-> create_whisper_model]
AcquireModel(pool) ==
  LET free_idx == FreeIdx(pool)
  IN IF free_idx = 0 /\ PoolHasRoom(pool)
       THEN [ok |-> TRUE,
             pool |-> Append(pool, [model |-> create_whisper_model,
                                    busy |-> TRUE]),
             mdl_idx |-> Len(pool) + 1, mdl |-> create_whisper_model]
       ELSE IF free_idx # 0
         THEN [ok |-> TRUE,
               pool |-> [pool EXCEPT ![free_idx].busy = TRUE],
               mdl_idx |-> free_idx, mdl |-> pool[free_idx].model]
         ELSE [ok |-> FALSE, pool |-> pool, mdl_idx |-> 0, mdl |-> 0]

\* line 94-115: pop the next ready item and acquire a model for it; leave
\* the inner loop when there is nothing to do (the locals ready_items and
\* available_slots are dead from there on and are reset)
TakeModel ==
  /\ d_pc = "loop"
  /\ IF available_slots > 0 /\ ready_items # <<>>
       THEN LET got == AcquireModel(model_pool)
            IN IF got.ok
                 THEN /\ model_pool' = got.pool
                      /\ cur' = [itm |-> Head(ready_items),
                                 mdl_idx |-> got.mdl_idx, mdl |-> got.mdl]
                      /\ ready_items' = Tail(ready_items)
                      /\ d_pc' = "spawn"
                      /\ UNCHANGED available_slots
                 ELSE /\ ready_items' = <<>>
                      /\ available_slots' = 0
                      /\ d_pc' = "idle"
                      /\ UNCHANGED <<model_pool, cur>>
       ELSE /\ ready_items' = <<>>
            /\ available_slots' = 0
            /\ d_pc' = "idle"
            /\ UNCHANGED <<model_pool, cur>>
  /\ UNCHANGED <<qvars, svars, transcriptions, worker_threads>>
  /\ UNCHANGED xvars

\* line 125-128: start the worker thread for (item, model_idx, model_to_use)
StartWorker ==
  /\ d_pc = "spawn"
  /\ worker_threads' = Append(worker_threads,
                         [itm |-> cur.itm, mdl_idx |-> cur.mdl_idx,
                          mdl |-> cur.mdl, pc |-> "start"])
  /\ available_slots' = available_slots - 1
  /\ cur' = NoCur
  /\ d_pc' = "loop"
  /\ UNCHANGED <<qvars, svars, transcriptions, model_pool, ready_items>>
  /\ UNCHANGED xvars

\* TranscriptionOrchestrator.cleanup: the pool is emptied under pool_lock
cleanup_Keep(pool) == pool
cleanup(pool) == <<>>

\* line 130-136: idle maintenance, then sleep and start over
IdleMaintenance ==
  /\ d_pc = "idle"
  /\ LET any_active == \/ \E s \in active_statuses :
                             get_all_items_by_status(s) # <<>>
                       \/ worker_threads # <<>>
     IN model_pool' = IF ~any_active /\ model_pool # <<>>
                        THEN cleanup(model_pool) ELSE model_pool
  /\ d_pc' = "prune"
  /\ UNCHANGED <<qvars, svars, transcriptions, worker_threads,
                 available_slots, ready_items, cur>>
  /\ UNCHANGED xvars

Dispatch ==
  \/ Prune
  \/ BuildConverted
  \/ BuildSkipped
  \/ TakeModel
  \/ StartWorker
  \/ IdleMaintenance

\* ------------------------------------------------ worker threads (core.py)
SetThread(i, t) == worker_threads' = [worker_threads EXCEPT ![i] = t]

\* transcribe_file line 37: item.update_status(TRANSCRIBING)
WorkerBegin(i) ==
  /\ worker_threads[i].pc = "start"
  /\ UpdateStatus(worker_threads[i].itm, TRANSCRIBING, NoneMsg)
  /\ SetThread(i, [worker_threads[i] EXCEPT !.pc = "infer"])
  /\ UNCHANGED <<svars, transcriptions, model_pool, dvars>>
  /\ UNCHANGED xvars

\* transcribe_file line 40-66: the inference call returned, the transcript
\* file is written, item.update_status(COMPLETED)
WorkerComplete(i) ==
  /\ worker_threads[i].pc = "infer"
  /\ UpdateStatus(worker_threads[i].itm, COMPLETED, NoneMsg)
  /\ SetThread(i, [worker_threads[i] EXCEPT !.pc = "finally"])
  /\ UNCHANGED <<svars, transcriptions, model_pool, dvars>>
  /\ UNCHANGED xvars

\* transcribe_file line 69-71: the inference call or the write raised
WorkerFail(i) ==
  /\ worker_threads[i].pc = "infer"
  /\ item' = [item EXCEPT ![worker_threads[i].itm] = mark_failed(@, MsgException)]
  /\ db_items' = save_queue_item(db_items, worker_threads[i].itm,
                                  item'[worker_threads[i].itm])
  /\ UNCHANGED <<queue, processing_order>>
  /\ SetThread(i, [worker_threads[i] EXCEPT !.pc = "finally"])
  /\ UNCHANGED <<svars, transcriptions, model_pool, dvars>>
  /\ UNCHANGED xvars

\* worker line 121-123: under pool_lock, model_pool[mdl_idx]["busy"] = False
\* (IndexError when the pool no longer has that index); the thread ends
ReleaseModel_Keep(pool, mdl_idx) == pool
ReleaseModel_First(pool, mdl_idx) ==
  IF pool = <<>> THEN pool ELSE [pool EXCEPT ![1].busy = FALSE]
ReleaseModel(pool, mdl_idx) ==
  IF mdl_idx \in DOMAIN pool
    THEN [pool EXCEPT ![mdl_idx].busy = FALSE]
    ELSE pool

WorkerRelease(i) ==
  /\ worker_threads[i].pc = "finally"
  /\ model_pool' = ReleaseModel(model_pool, worker_threads[i].mdl_idx)
  /\ SetThread(i, DeadThread)
  /\ UNCHANGED <<qvars, svars, transcriptions, dvars>>
  /\ UNCHANGED xvars

Worker ==
  \/ \E i \in DOMAIN worker_threads : WorkerBegin(i)
  \/ \E i \in DOMAIN worker_threads : WorkerComplete(i)
  \/ \E i \in DOMAIN worker_threads : WorkerFail(i)
  \/ \E i \in DOMAIN worker_threads : WorkerRelease(i)

\* core.py run as the main program, line 192-200: Ctrl-C raises
\* KeyboardInterrupt in the main thread, wherever run_orchestration is; the
\* handler calls orchestrator.cleanup() and then joins the media threads,
\* while the worker threads (daemon threads) go on running.
KeyboardInterrupt ==
  /\ d_pc # "stopped"
  /\ model_pool' = cleanup(model_pool)
  /\ d_pc' = "stopped"
  /\ UNCHANGED <<qvars, svars, transcriptions, worker_threads,
                 available_slots, ready_items, cur>>
  /\ UNCHANGED xvars

\* --------------------------------------------- requests (api_server.py)
\* QueueManager.remove_item: the row and the dict entry go, the object stays
\* with whoever holds it
remove_item(j) ==
  /\ db_items' = [db_items EXCEPT ![j] = NoRec]
  /\ queue' = SelectSeq(queue, LAMBDA k : k # j)
  /\ processing_order' = SelectSeq(processing_order, LAMBDA k : k # j)
  /\ UNCHANGED item

\* DELETE /api/queue/item/<item_id>
remove_queue_item(j) ==
  /\ Created(j)
  /\ IF ~InQueue(j)
       THEN UNCHANGED qvars                                   \* 404
       ELSE IF can_cancel_item(j)
         THEN UpdateStatus(j, CANCELLED, MsgCancelled)
         ELSE IF can_remove_item(j)
           THEN remove_item(j)
           ELSE UNCHANGED qvars                               \* 400
  /\ UNCHANGED <<svars, transcriptions, pvars, dvars>>
  /\ UNCHANGED xvars

\* POST /api/queue/resolve-duplicate/<item_id>: line 374-386, the error the
\* request is answered with before anything is written ("none": it goes on)
resolve_error_PayloadFirst(j) ==
  IF ~InQueue(j) THEN "item not found"
  ELSE IF item[j].pending_transcription = NonePT
    THEN "no pending transcription data found"
  ELSE IF item[j].status # PENDING_DUPLICATE
    THEN "item is not pending duplicate resolution"
  ELSE "none"
resolve_error(j) ==
  IF ~InQueue(j) THEN "item not found"                              \* 404
  ELSE IF item[j].status # PENDING_DUPLICATE
    THEN "item is not pending duplicate resolution"                 \* 400
  ELSE IF item[j].pending_transcription = NonePT
    THEN "no pending transcription data found"                      \* 400
  ELSE "none"

\* line 399-407: the first row of get_all_transcriptions with the payload's
\* filename is deleted by its id
existing_id(t, filename) ==
  LET ts == get_all_transcriptions(t)
      hits == {i \in DOMAIN ts : ts[i].filename = filename}
  IN IF hits = {} THEN 0
     ELSE ts[CHOOSE i \in hits : \A k \in hits : i <= k].id
delete_existing(t, filename) ==
  IF existing_id(t, filename) # 0
    THEN delete_transcription(t, existing_id(t, filename))
    ELSE t

\* the whole handler, served without another thread running in between
resolve_duplicate(j, action) ==
  /\ Created(j)
  /\ IF resolve_error(j) # "none"
       THEN UNCHANGED <<qvars, transcriptions>>
       ELSE LET pt == item[j].pending_transcription[1] IN
         IF action = "cancel"
           THEN /\ item' = [item EXCEPT ![j] =
                     [update_status(item[j], CANCELLED, MsgDupCancelled)
                        EXCEPT !.pending_transcription = NonePT]]
                /\ db_items' = save_queue_item(db_items, j,
                     update_status(item[j], CANCELLED, MsgDupCancelled))
                /\ UNCHANGED <<queue, processing_order, transcriptions>>
           ELSE /\ IF pt.content = "None"
                     THEN /\ transcriptions' =
                               delete_existing(transcriptions, pt.filename)
                          /\ item' = [item EXCEPT ![j] =
                               [update_status(item[j], CONVERTED, NoneMsg)
                                  EXCEPT !.pending_transcription = NonePT]]
                          /\ db_items' = save_queue_item(db_items, j,
                               update_status(item[j], CONVERTED, NoneMsg))
                     ELSE /\ transcriptions' =
                               add_transcription(
                                 delete_existing(transcriptions, pt.filename),
                                 pt.filename, pt.content, j)
                          /\ item' = [item EXCEPT ![j] =
                               [update_status(item[j], COMPLETED, NoneMsg)
                                  EXCEPT !.pending_transcription = NonePT]]
                          /\ db_items' = save_queue_item(db_items, j,
                               update_status(item[j], COMPLETED, NoneMsg))
                /\ UNCHANGED <<queue, processing_order>>
  /\ UNCHANGED <<svars, pvars, dvars>>
  /\ UNCHANGED xvars

\* QueueManager.remove_items: the dict it returns, and the queue it works on
NoResult == [removed |-> 0, cancelled |-> 0, not_found |-> 0,
             cannot_remove |-> 0]
QueueState == [queue |-> queue, processing_order |-> processing_order,
               item |-> item, db_items |-> db_items, result |-> NoResult]

\* line 250-262: the body of the loop for one item_id (get_item, then
\* can_cancel_item, then can_remove_item)
remove_one_NoCount(st, j) ==
  IF \E i \in DOMAIN st.queue : st.queue[i] = j
    THEN [st EXCEPT !.result.cannot_remove = @ + 1]
    ELSE st
remove_one(st, j) ==
  IF ~(\E i \in DOMAIN st.queue : st.queue[i] = j)
    THEN [st EXCEPT !.result.not_found = @ + 1]
    ELSE IF st.item[j].status \in cancel_states
      THEN LET it == update_status(st.item[j], CANCELLED, MsgCancelled)
           IN [st EXCEPT !.item[j] = it,
                         !.db_items = save_queue_item(@, j, it),
                         !.result.cancelled = @ + 1]
      ELSE IF st.item[j].status \in final_states
        THEN [st EXCEPT !.db_items[j] = NoRec,
                        !.queue = SelectSeq(@, LAMBDA k : k # j),
                        !.processing_order = SelectSeq(@, LAMBDA k : k # j),
                        !.result.removed = @ + 1]
        ELSE [st EXCEPT !.result.cannot_remove = @ + 1]

\* line 240-264: the loop over item_ids, in list order
RECURSIVE remove_items(_, _)
remove_items(st, item_ids) ==
  IF item_ids = <<>>
    THEN st
    ELSE remove_items(remove_one(st, Head(item_ids)), Tail(item_ids))

\* the id lists a request carries: non-empty, ids may repeat, an id that
\* add_item has not returned yet or that was removed is an unknown id
IdLists == UNION {[1..n -> Jobs] : n \in 1..MaxIds}

\* DELETE /api/queue/items with {"ids": item_ids}
remove_queue_items(item_ids) ==
  /\ LET r == remove_items(QueueState, item_ids)
     IN /\ queue' = r.queue
        /\ processing_order' = r.processing_order
        /\ item' = r.item
        /\ db_items' = r.db_items
  /\ UNCHANGED <<svars, transcriptions, pvars, dvars>>
  /\ UNCHANGED xvars

Api ==
  \/ \E j \in Jobs : remove_queue_item(j)
  \/ \E j \in Jobs, a \in {"overwrite", "cancel"} : resolve_duplicate(j, a)

Next == Stage \/ Dispatch \/ Worker \/ Api

Spec == Init /\ [][Next]_vars

\* core.py run as the main program: the media threads, the dispatch loop
\* in the main thread, its workers, and no http server
NextMain == Stage \/ Dispatch \/ Worker \/ KeyboardInterrupt

SpecMain == Init /\ [][NextMain]_vars

\* the same program with the orchestrator's max_workers set to 0 (the
\* dispatch loop paused) or to 1
WorkerCounts == {0, 1}
InitWorkers == InitState /\ max_workers \in WorkerCounts
SpecWorkers == InitWorkers /\ [][Next]_vars

\* ... with the dispatch loop (a thread that sleeps 0.5 s between cycles)
\* and the worker threads scheduled fairly; a worker's inference call
\* returns, with a result or an exception
SpecWorkersFair ==
  /\ InitWorkers
  /\ [][Next]_vars
  /\ WF_vars(Dispatch)
  /\ WF_vars(Worker)

\* ------------------------------------- the requests on a loaded queue
\* QueueManager._load_from_db: at start-up the queue is rebuilt from the rows
\* of queue_items, whatever their status; a row holds what the last save of
\* the item wrote.
PathIn(st) == IF st \in {QUEUED, DOWNLOADING} THEN SrcPath("a")
              ELSE IF st = CONVERTING THEN OpusPath("a")
              ELSE OggPath("a")
MessageIn(st) == IF st = FAILED THEN MsgStageError
                 ELSE IF st = CANCELLED THEN MsgCancelled
                 ELSE IF st = PENDING_DUPLICATE THEN MsgDuplicate
                 ELSE NoneMsg
PayloadsIn(st) ==
  IF st = PENDING_DUPLICATE
    THEN {NonePT,
          <<[filename |-> OutputFilename(PathIn(st)), content |-> "None"]>>,
          <<[filename |-> OutputFilename(PathIn(st)), content |-> "text"]>>}
    ELSE {NonePT}
Rows == {[status |-> st, file_path |-> PathIn(st),
          error_message |-> MessageIn(st), pending_transcription |-> pt] :
           st \in QueueStatus, pt \in {NonePT} \cup PayloadsIn(PENDING_DUPLICATE)}
LoadedRows == {r \in Rows : r.pending_transcription \in PayloadsIn(r.status)}

\* line 98-100: ids of rows in a final state are not put in processing_order
load_final_states == {COMPLETED, FAILED, CANCELLED}

InitLoaded ==
  /\ \E n \in 0..MaxJobs :
       /\ queue = [i \in 1..n |-> i]
       /\ db_items \in [Jobs -> LoadedRows \cup {NoRec}]
       /\ \A j \in Jobs : db_items[j] = NoRec <=> j > n
  /\ item = db_items
  /\ processing_order =
       SelectSeq(queue, LAMBDA j : item[j].status \notin load_final_states)
  /\ transcriptions \in {Table({StoredRow(1)}),
                          Table({StoredRow(1), StoredRow(2)})}
  /\ stage = [j \in Jobs |-> IF InQueue(j) THEN "done" ELSE "new"]
  /\ locator = [j \in Jobs |-> "none"]
  /\ model_pool = <<>>
  /\ worker_threads = <<>>
  /\ max_workers = 2
  /\ d_pc = "prune"
  /\ available_slots = 0
  /\ ready_items = <<>>
  /\ cur = NoCur
  /\ req = [r \in Requests |-> NoReq]
  /\ transcription_status = get_initial_transcription_status
  /\ list_file = <<>>
  /\ tasks = <<>>
  /\ response = NoResponse
  /\ video_queue = <<>>
  /\ processing_item = <<>>
  /\ queue_file = NoFile
  /\ uuid_count = 0
  /\ returned = NoCall

ApiBulk == \E item_ids \in IdLists : remove_queue_items(item_ids)

NextBulk == Api \/ ApiBulk

SpecBulk == InitLoaded /\ [][NextBulk]_vars

\* the restarted process: the queue as _load_from_db built it, the dispatch
\* loop, its workers and the requests on the loaded jobs, while no new
\* source is submitted; the loop and the workers are scheduled fairly
NextRestart == Dispatch \/ Worker \/ Api

SpecRestartFair ==
  /\ InitLoaded
  /\ [][NextRestart]_vars
  /\ WF_vars(Dispatch)
  /\ WF_vars(Worker)


\* ----------------------------- the queue's persistence (queue_manager.py)
\* QueueManager.update_item_path
update_item_path(j, p) ==
  IF InQueue(j)
    THEN /\ item' = [item EXCEPT ![j].file_path = p]
         /\ db_items' = save_queue_item(db_items, j, item'[j])
         /\ UNCHANGED <<queue, processing_order>>
    ELSE UNCHANGED qvars

\* TranscriptionDB.load_queue_items: the ids of the rows, ORDER BY created_at
\* (ids are given in the order of creation)
load_queue_items(db) ==
  SelectSeq([i \in 1..MaxJobs |-> i], LAMBDA j : db[j] # NoRec)

\* _load_from_db line 80-96: the QueueItem built from a row
LoadedItem(row) ==
  [status |-> row.status, file_path |-> row.file_path,
   error_message |-> row.error_message,
   pending_transcription |-> row.pending_transcription]

\* _load_from_db line 97: self.queue[item.id] = item, for every row
LoadedQueue_Active(db) ==
  SelectSeq(load_queue_items(db),
            LAMBDA j : db[j].status \notin load_final_states)
LoadedQueue(db) == load_queue_items(db)

\* _load_from_db line 98-100
LoadedOrder(db) ==
  SelectSeq(load_queue_items(db),
            LAMBDA j : LoadedItem(db[j]).status \notin load_final_states)

\* _cleanup_orphaned_temp_files: every file of TEMP_DIR is removed. Uploads,
\* yt-dlp and ffmpeg all write into that directory.
Paths == {SrcPath(s) : s \in Sources} \cup {OpusPath(s) : s \in Sources}
           \cup {OggPath(s) : s \in Sources}
InTempDir(p) == p[1] \in {"opus", "ogg"}
cleanup_orphaned_temp_files(files) == {p \in files : ~InTempDir(p)}
\* the files that can exist when _load_from_db has returned
FilesAfterLoad == cleanup_orphaned_temp_files(Paths)

\* calls of the queue's three writing operations, with any arguments
StoreAddItem(s) ==
  /\ \E j \in Jobs : ~Created(j)
  /\ add_item(NextId, s)
  /\ UNCHANGED <<transcriptions, svars, pvars, dvars, xvars>>

StoreUpdateStatus(j, new_status, error_message) ==
  /\ InQueue(j)
  /\ UpdateStatus(j, new_status, error_message)
  /\ UNCHANGED <<transcriptions, svars, pvars, dvars, xvars>>

StoreUpdatePath(j, p) ==
  /\ Created(j)
  /\ update_item_path(j, p)
  /\ UNCHANGED <<transcriptions, svars, pvars, dvars, xvars>>

NextStore ==
  \/ \E s \in Sources : StoreAddItem(s)
  \/ \E j \in Jobs, st \in QueueStatus, m \in {NoneMsg, MsgStageError} :
       StoreUpdateStatus(j, st, m)
  \/ \E j \in Jobs, p \in Paths : StoreUpdatePath(j, p)

SpecStore == Init /\ [][NextStore]_vars

\* update_status when save_queue_item fails: the exception is caught inside
\* save_queue_item (it returns False), _save_to_db ignores the result and
\* update_status returns None as always; the row keeps what it held
StoreUpdateStatusUnsaved(j, new_status, error_message) ==
  /\ InQueue(j)
  /\ item' = [item EXCEPT ![j] = update_status(item[j], new_status,
                                               error_message)]
  /\ UNCHANGED <<queue, processing_order, db_items>>
  /\ UNCHANGED <<transcriptions, svars, pvars, dvars, xvars>>

NextSaveFail ==
  \/ \E s \in Sources : StoreAddItem(s)
  \/ \E j \in Jobs, st \in QueueStatus : StoreUpdateStatus(j, st, NoneMsg)
  \/ \E j \in Jobs, st \in QueueStatus :
       StoreUpdateStatusUnsaved(j, st, NoneMsg)

SpecSaveFail == Init /\ [][NextSaveFail]_vars

\* ------------------- resolve-duplicate requests served by several threads
\* app.run(threaded=True): every request is served by a thread of its own, and
\* resolve_duplicate takes no lock, so a step of a request thread is one read
\* or write of the item or of the transcriptions table.
Answer(r, code, error) ==
  req' = [req EXCEPT ![r].pc = "done", ![r].code = code, ![r].error = error]
Goto(r, pc) == req' = [req EXCEPT ![r].pc = pc]

\* line 374-378: conversion_queue.get_item(item_id)
ResolveBegin(r, j, action) ==
  /\ req[r].pc = "none"
  /\ Created(j)
  /\ req' = [req EXCEPT ![r] =
              IF InQueue(j)
                THEN [NoReq EXCEPT !.pc = "status", !.itm = j,
                                   !.action = action]
                ELSE [NoReq EXCEPT !.pc = "done", !.itm = j,
                                   !.action = action, !.code = 404,
                                   !.error = "item not found"]]
  /\ UNCHANGED <<qvars, transcriptions, svars, pvars, dvars, tvars,
                 max_workers, vqvars>>

\* line 381-382
ResolveStatus(r) ==
  /\ req[r].pc = "status"
  /\ IF item[req[r].itm].status # PENDING_DUPLICATE
       THEN Answer(r, 400, "item is not pending duplicate resolution")
       ELSE Goto(r, "payload")
  /\ UNCHANGED <<qvars, transcriptions, svars, pvars, dvars, tvars,
                 max_workers, vqvars>>

\* line 385-388 and 396
ResolvePayload(r) ==
  /\ req[r].pc = "payload"
  /\ IF item[req[r].itm].pending_transcription = NonePT
       THEN Answer(r, 400, "no pending transcription data found")
       ELSE Goto(r, IF req[r].action = "cancel" THEN "cancel" ELSE "filename")
  /\ UNCHANGED <<qvars, transcriptions, svars, pvars, dvars, tvars,
                 max_workers, vqvars>>

\* line 389: item.update_status(CANCELLED, "duplicate cancelled by user")
ResolveCancel(r) ==
  /\ req[r].pc = "cancel"
  /\ UpdateStatus(req[r].itm, CANCELLED, MsgDupCancelled)
  /\ Goto(r, "clear")
  /\ UNCHANGED <<transcriptions, svars, pvars, dvars, tvars,
                 max_workers, vqvars>>

\* line 390, 411, 430: item.pending_transcription = None, and the 200
ResolveClear(r) ==
  /\ req[r].pc = "clear"
  /\ item' = [item EXCEPT ![req[r].itm].pending_transcription = NonePT]
  /\ Answer(r, 200, "none")
  /\ UNCHANGED <<queue, processing_order, db_items, transcriptions, svars,
                 pvars, dvars, tvars,
                 max_workers, vqvars>>

\* line 397: item.pending_transcription['filename'] (TypeError on None is
\* caught at line 437 and answered 500)
ResolveFilename(r) ==
  /\ req[r].pc = "filename"
  /\ IF item[req[r].itm].pending_transcription = NonePT
       THEN Answer(r, 500, "exception")
       ELSE req' = [req EXCEPT ![r].pc = "lookup",
                      ![r].filename =
                         item[req[r].itm].pending_transcription[1].filename]
  /\ UNCHANGED <<qvars, transcriptions, svars, pvars, dvars, tvars,
                 max_workers, vqvars>>

\* line 399-404: the loop over get_all_transcriptions
ResolveLookup(r) ==
  /\ req[r].pc = "lookup"
  /\ req' = [req EXCEPT ![r].pc = "delete",
               ![r].existing_id = existing_id(transcriptions, req[r].filename)]
  /\ UNCHANGED <<qvars, transcriptions, svars, pvars, dvars, tvars,
                 max_workers, vqvars>>

\* line 406-407
ResolveDelete(r) ==
  /\ req[r].pc = "delete"
  /\ transcriptions' = IF req[r].existing_id # 0
                         THEN delete_transcription(transcriptions,
                                                   req[r].existing_id)
                         ELSE transcriptions
  /\ Goto(r, "content")
  /\ UNCHANGED <<qvars, svars, pvars, dvars, tvars,
                 max_workers, vqvars>>

\* line 409: item.pending_transcription.get('content') (AttributeError on
\* None), then line 418-419 read the content again
ResolveContent(r) ==
  /\ req[r].pc = "content"
  /\ IF item[req[r].itm].pending_transcription = NonePT
       THEN Answer(r, 500, "exception")
       ELSE Goto(r, IF item[req[r].itm].pending_transcription[1].content
                          = "None"
                       THEN "converted" ELSE "read")
  /\ UNCHANGED <<qvars, transcriptions, svars, pvars, dvars, tvars,
                 max_workers, vqvars>>

\* line 410: item.update_status(CONVERTED)
ResolveConverted(r) ==
  /\ req[r].pc = "converted"
  /\ UpdateStatus(req[r].itm, CONVERTED, NoneMsg)
  /\ Goto(r, "clear")
  /\ UNCHANGED <<transcriptions, svars, pvars, dvars, tvars,
                 max_workers, vqvars>>

\* line 418-426: content and header are read and the file is written
ResolveRead(r) ==
  /\ req[r].pc = "read"
  /\ IF item[req[r].itm].pending_transcription = NonePT
       THEN Answer(r, 500, "exception")
       ELSE req' = [req EXCEPT ![r].pc = "add",
                      ![r].content =
                         item[req[r].itm].pending_transcription[1].content]
  /\ UNCHANGED <<qvars, transcriptions, svars, pvars, dvars, tvars,
                 max_workers, vqvars>>

\* line 428: db.add_transcription(filename, content, item.id)
ResolveAdd(r) ==
  /\ req[r].pc = "add"
  /\ transcriptions' = add_transcription(transcriptions, req[r].filename,
                                         req[r].content, req[r].itm)
  /\ Goto(r, "completed")
  /\ UNCHANGED <<qvars, svars, pvars, dvars, tvars,
                 max_workers, vqvars>>

\* line 429: item.update_status(COMPLETED)
ResolveCompleted(r) ==
  /\ req[r].pc = "completed"
  /\ UpdateStatus(req[r].itm, COMPLETED, NoneMsg)
  /\ Goto(r, "clear")
  /\ UNCHANGED <<transcriptions, svars, pvars, dvars, tvars,
                 max_workers, vqvars>>

NextResolve ==
  \/ \E r \in Requests, j \in Jobs, a \in {"overwrite", "cancel"} :
       ResolveBegin(r, j, a)
  \/ \E r \in Requests : ResolveStatus(r)
  \/ \E r \in Requests : ResolvePayload(r)
  \/ \E r \in Requests : ResolveCancel(r)
  \/ \E r \in Requests : ResolveClear(r)
  \/ \E r \in Requests : ResolveFilename(r)
  \/ \E r \in Requests : ResolveLookup(r)
  \/ \E r \in Requests : ResolveDelete(r)
  \/ \E r \in Requests : ResolveContent(r)
  \/ \E r \in Requests : ResolveConverted(r)
  \/ \E r \in Requests : ResolveRead(r)
  \/ \E r \in Requests : ResolveAdd(r)
  \/ \E r \in Requests : ResolveCompleted(r)

SpecResolve == InitLoaded /\ [][NextResolve]_vars

\* ------------------------------------ the pipeline service (transcriber.py)
\* The endpoints are coroutines without an await: each runs to its end on the
\* event loop. run_transcription_pipeline is a plain function, which the
\* BackgroundTasks run in a worker thread after the response was sent, so
\* its steps interleave with the endpoints.
mvars == <<qvars, transcriptions, svars, pvars, dvars, req, max_workers,
           vqvars>>

\* the lines a client can add: a url and a blank line
Lines == {"u1", ""}
UrlLists == UNION {[1..n -> Lines] : n \in 1..MaxLines}

\* dict.update
update_KeepOld(d, u) ==
  [k \in DOMAIN d \cup DOMAIN u |-> IF k \in DOMAIN d THEN d[k] ELSE u[k]]
update(d, u) ==
  [k \in DOMAIN d \cup DOMAIN u |-> IF k \in DOMAIN u THEN u[k] ELSE d[k]]

\* POST /add_links
add_links_to_list(urls) ==
  /\ Len(list_file) + Len(urls) <= MaxLines
  /\ list_file' = list_file \o urls
  /\ response' = [op |-> "add_links", code |-> 200, status |-> "none"]
  /\ UNCHANGED <<transcription_status, tasks>>
  /\ UNCHANGED mvars

\* line 80: the statuses in which a trigger is not refused
trigger_statuses_WithError ==
  {"idle", "completed", "completed_with_errors", "error"}
trigger_statuses == {"idle", "completed", "completed_with_errors"}

\* background_tasks.add_task(run_transcription_pipeline)
NewTask == [pc |-> "scheduled", urls |-> <<>>, downloaded |-> <<>>]

\* POST /trigger_transcription
trigger_transcription_processing ==
  /\ IF transcription_status.status \notin trigger_statuses
       THEN /\ response' = [op |-> "trigger", code |-> 409,
                            status |-> transcription_status.status]
            /\ UNCHANGED <<transcription_status, tasks>>
       ELSE IF list_file = <<>>
         THEN /\ response' = [op |-> "trigger", code |-> 200,
                              status |-> "idle"]
              /\ UNCHANGED <<transcription_status, tasks>>
         ELSE /\ Len(tasks) < MaxTasks
              /\ transcription_status' =
                   [update(transcription_status,
                           get_initial_transcription_status)
                      EXCEPT !.status = "queued"]
              /\ tasks' = Append(tasks, NewTask)
              /\ response' = [op |-> "trigger", code |-> 202,
                              status |-> "queued"]
  /\ UNCHANGED list_file
  /\ UNCHANGED mvars

\* GET /status
get_status ==
  /\ response' = [op |-> "status", code |-> 200,
                  status |-> transcription_status.status]
  /\ UNCHANGED <<transcription_status, list_file, tasks>>
  /\ UNCHANGED mvars

\* POST /clear_list
clear_list_file ==
  /\ list_file' = <<>>
  /\ transcription_status' =
       update(transcription_status, get_initial_transcription_status)
  /\ response' = [op |-> "clear_list", code |-> 200, status |-> "idle"]
  /\ UNCHANGED tasks
  /\ UNCHANGED mvars

\* run_transcription_pipeline, one step per block of status writes
SetTask(t, pc) == tasks' = [tasks EXCEPT ![t].pc = pc]
EndTask(t) ==
  tasks' = SelectSeq([i \in DOMAIN tasks |->
                        IF i = t THEN [tasks[i] EXCEPT !.pc = "done"]
                        ELSE tasks[i]],
                     LAMBDA x : x.pc # "done")

\* "if url not in failed_urls: failed_urls.append(url)", for each url
RECURSIVE AppendNew(_, _)
AppendNew(seq, urls) ==
  IF urls = <<>> THEN seq
  ELSE AppendNew(IF Head(urls) \in Range(seq) THEN seq
                 ELSE Append(seq, Head(urls)), Tail(urls))

\* line 638-647: initialize_db, which may raise
PipelineInit(t, ok) ==
  /\ tasks[t].pc = "scheduled"
  /\ IF ok
       THEN /\ SetTask(t, "list")
            /\ UNCHANGED transcription_status
       ELSE /\ transcription_status' =
                 [transcription_status EXCEPT !.status = "error",
                                              !.progress = <<0, 0>>]
            /\ EndTask(t)
  /\ UNCHANGED <<list_file, response>>
  /\ UNCHANGED mvars

\* line 653-659
PipelineList(t) ==
  /\ tasks[t].pc = "list"
  /\ IF list_file = <<>>
       THEN /\ transcription_status' =
                 update(transcription_status,
                        [status |-> "idle", progress |-> <<0, 0>>])
            /\ SetTask(t, "cleanup")
       ELSE /\ transcription_status' =
                 [transcription_status EXCEPT !.status = "processing_downloads"]
            /\ SetTask(t, "read")
  /\ UNCHANGED <<list_file, response>>
  /\ UNCHANGED mvars

\* line 662-678: the stripped non-blank lines; none -> completed 0/0
PipelineRead(t) ==
  /\ tasks[t].pc = "read"
  /\ LET all_urls_from_file == SelectSeq(list_file, LAMBDA u : u # "")
     IN IF all_urls_from_file = <<>>
          THEN /\ transcription_status' =
                    update(transcription_status,
                           [status |-> "completed", progress |-> <<0, 0>>])
               /\ SetTask(t, "cleanup")
          ELSE /\ transcription_status' =
                    [transcription_status EXCEPT
                       !.progress = <<0, Len(all_urls_from_file)>>,
                       !.processed_videos = <<>>,
                       !.failed_urls = <<>>]
               /\ tasks' = [tasks EXCEPT ![t].pc = "download",
                                         ![t].urls = all_urls_from_file]
  /\ UNCHANGED <<list_file, response>>
  /\ UNCHANGED mvars

\* line 657-658, 676-677: cleanup_tmp_dir(TMP_DIR) and the return, which come
\* after the status was written
PipelineCleanup(t) ==
  /\ tasks[t].pc = "cleanup"
  /\ EndTask(t)
  /\ UNCHANGED <<transcription_status, list_file, response>>
  /\ UNCHANGED mvars

\* line 680-737: the download phase; failed is the set of urls that the
\* table reports as failed_download or that yt-dlp fails on
PipelineDownload(t, failed) ==
  /\ tasks[t].pc = "download"
  /\ failed \subseteq Range(tasks[t].urls)
  /\ transcription_status' =
       [transcription_status EXCEPT
          !.failed_urls =
             AppendNew(@, SelectSeq(tasks[t].urls, LAMBDA u : u \in failed)),
          !.progress = <<0, Len(tasks[t].urls)>>,
          !.status = "processing_transcriptions"]
  /\ tasks' = [tasks EXCEPT ![t].pc = "transcribe",
                            ![t].downloaded =
                               AppendNew(<<>>, SelectSeq(tasks[t].urls,
                                                 LAMBDA u : u \notin failed))]
  /\ UNCHANGED <<list_file, response>>
  /\ UNCHANGED mvars

\* line 740-769: transcribe_files and the insertion of the results; failed
\* is the set of urls whose transcription fails
PipelineTranscribe(t, failed) ==
  /\ tasks[t].pc = "transcribe"
  /\ failed \subseteq Range(tasks[t].downloaded)
  /\ LET failed_urls ==
           AppendNew(transcription_status.failed_urls,
                     SelectSeq(tasks[t].downloaded, LAMBDA u : u \in failed))
         results ==
           SelectSeq(tasks[t].downloaded,
                     LAMBDA u : u \notin failed /\ u \notin Range(failed_urls))
     IN transcription_status' =
          [transcription_status EXCEPT
             !.failed_urls = failed_urls,
             !.processed_videos = AppendNew(@, results)]
  /\ SetTask(t, "final")
  /\ UNCHANGED <<list_file, response>>
  /\ UNCHANGED mvars

\* line 771-786: the final status update
PipelineFinal(t) ==
  /\ tasks[t].pc = "final"
  /\ LET successful ==
           SelectSeq(transcription_status.processed_videos,
                     LAMBDA u : u \notin Range(transcription_status.failed_urls))
     IN transcription_status' =
          [transcription_status EXCEPT
             !.processed_videos = successful,
             !.progress = <<Len(successful), Len(tasks[t].urls)>>,
             !.status = IF transcription_status.failed_urls = <<>>
                          THEN "completed" ELSE "completed_with_errors"]
  /\ EndTask(t)
  /\ UNCHANGED <<list_file, response>>
  /\ UNCHANGED mvars

\* line 791-792: an exception inside the try block
PipelineError(t) ==
  /\ tasks[t].pc \in {"read", "download", "transcribe", "final"}
  /\ transcription_status' =
       [transcription_status EXCEPT !.status = "error"]
  /\ EndTask(t)
  /\ UNCHANGED <<list_file, response>>
  /\ UNCHANGED mvars

NextTranscriber ==
  \/ \E urls \in UrlLists : add_links_to_list(urls)
  \/ trigger_transcription_processing
  \/ get_status
  \/ clear_list_file
  \/ \E t \in DOMAIN tasks, ok \in BOOLEAN : PipelineInit(t, ok)
  \/ \E t \in DOMAIN tasks : PipelineList(t)
  \/ \E t \in DOMAIN tasks : PipelineRead(t)
  \/ \E t \in DOMAIN tasks : PipelineCleanup(t)
  \/ \E t \in DOMAIN tasks, f \in SUBSET Lines : PipelineDownload(t, f)
  \/ \E t \in DOMAIN tasks, f \in SUBSET Lines : PipelineTranscribe(t, f)
  \/ \E t \in DOMAIN tasks : PipelineFinal(t)
  \/ \E t \in DOMAIN tasks : PipelineError(t)

InitTranscriber == Init /\ transcriptions = Table({})

SpecTranscriber == InitTranscriber /\ [][NextTranscriber]_vars

\* ------------------------------- VideoProcessingQueue (video_queue.py)
\* Every public method runs under self.lock and is one step. An item is its
\* id, url, video_type and status; title, the times, error_message and
\* local_path are written but read by no method.
bvars == <<qvars, transcriptions, svars, pvars, dvars, req, tvars,
           max_workers>>

Urls == {"v1", "v2"}
UrlArgs == UNION {[1..n -> Urls] : n \in 0..MaxUrls}

YOUTUBE == "youtube"
CUSTOM  == "custom"
VideoStatus == {QUEUED, DOWNLOADING, TRANSCRIBING, COMPLETED, FAILED}

\* VideoQueueItem.__init__, n standing for the uuid4
VideoQueueItem(n, url, video_type) ==
  [id |-> n, url |-> url, video_type |-> video_type, status |-> QUEUED]

\* _is_url_in_queue, for the queue q and the processing item p
is_url_in_queue_QueueOnly(q, p, url) ==
  \E i \in DOMAIN q : q[i].url = url
is_url_in_queue(q, p, url) ==
  \/ \E i \in DOMAIN q : q[i].url = url
  \/ p # <<>> /\ p[1].url = url

\* _save_queue: the queue and the processing item, as dicts
save_queue(q, p) == [queue |-> q, processing_item |-> p]

\* the loop of add_youtube_urls over urls: the queue, the number added and
\* the number of objects created
RECURSIVE AddUrls(_, _, _, _, _)
AddUrls(q, p, n, count, urls) ==
  IF urls = <<>> THEN [queue |-> q, count |-> count, n |-> n]
  ELSE IF is_url_in_queue(q, p, Head(urls))
    THEN AddUrls(q, p, n, count, Tail(urls))
    ELSE AddUrls(Append(q, VideoQueueItem(n + 1, Head(urls), YOUTUBE)), p,
                 n + 1, count + 1, Tail(urls))

add_youtube_urls(urls) ==
  LET r == AddUrls(video_queue, processing_item, uuid_count, 0, urls)
  IN /\ r.n <= MaxVideos
     /\ video_queue' = r.queue
     /\ uuid_count' = r.n
     /\ queue_file' = save_queue(r.queue, processing_item)
     /\ returned' = [op |-> "add_youtube_urls", value |-> r.count]
     /\ UNCHANGED processing_item
     /\ UNCHANGED bvars

add_custom_video(custom_url) ==
  /\ IF ~is_url_in_queue(video_queue, processing_item, custom_url)
       THEN /\ uuid_count < MaxVideos
            /\ video_queue' =
                 Append(video_queue,
                        VideoQueueItem(uuid_count + 1, custom_url, CUSTOM))
            /\ uuid_count' = uuid_count + 1
            /\ queue_file' = save_queue(video_queue', processing_item)
            /\ returned' = [op |-> "add_custom_video", value |-> TRUE]
       ELSE /\ returned' = [op |-> "add_custom_video", value |-> FALSE]
            /\ UNCHANGED <<video_queue, uuid_count, queue_file>>
  /\ UNCHANGED processing_item
  /\ UNCHANGED bvars

\* line 134: "if self.queue and not self.processing_item"
HasNext_IgnoreProcessing(q, p) == q # <<>>
HasNext(q, p) == q # <<>> /\ p = <<>>

get_next_item ==
  /\ IF HasNext(video_queue, processing_item)
       THEN /\ processing_item' =
                 <<[Head(video_queue) EXCEPT !.status = DOWNLOADING]>>
            /\ video_queue' = Tail(video_queue)
            /\ queue_file' = save_queue(video_queue', processing_item')
            /\ returned' = [op |-> "get_next_item", value |-> processing_item']
       ELSE /\ returned' = [op |-> "get_next_item", value |-> <<>>]
            /\ UNCHANGED <<video_queue, processing_item, queue_file>>
  /\ UNCHANGED uuid_count
  /\ UNCHANGED bvars

update_item_status(item_id, status) ==
  /\ IF processing_item # <<>> /\ processing_item[1].id = item_id
       THEN /\ processing_item' = <<[processing_item[1] EXCEPT !.status = status]>>
            /\ queue_file' = save_queue(video_queue, processing_item')
       ELSE UNCHANGED <<processing_item, queue_file>>
  /\ returned' = [op |-> "update_item_status", value |-> <<>>]
  /\ UNCHANGED <<video_queue, uuid_count>>
  /\ UNCHANGED bvars

complete_current_item ==
  /\ IF processing_item # <<>>
       THEN /\ processing_item' = <<>>
            /\ queue_file' = save_queue(video_queue, <<>>)
       ELSE UNCHANGED <<processing_item, queue_file>>
  /\ returned' = [op |-> "complete_current_item", value |-> <<>>]
  /\ UNCHANGED <<video_queue, uuid_count>>
  /\ UNCHANGED bvars

clear_queue ==
  /\ video_queue' = <<>>
  /\ processing_item' = <<>>
  /\ queue_file' = save_queue(<<>>, <<>>)
  /\ returned' = [op |-> "clear_queue", value |-> <<>>]
  /\ UNCHANGED uuid_count
  /\ UNCHANGED bvars

NextVideo ==
  \/ \E urls \in UrlArgs : add_youtube_urls(urls)
  \/ \E u \in Urls : add_custom_video(u)
  \/ get_next_item
  \/ \E n \in 1..MaxVideos, st \in VideoStatus : update_item_status(n, st)
  \/ complete_current_item
  \/ clear_queue

SpecVideo == Init /\ [][NextVideo]_vars

\* ------------------------------------------------------------ properties
Running == {i \in DOMAIN worker_threads : Alive(worker_threads[i])}
Busy    == {i \in DOMAIN model_pool : model_pool[i].busy}
Queued  == Range(queue)
StatusOf(j) == item[j].status

\* C1: the pool never holds more than max_workers handles and never more
\* than max_workers of them are busy.
C1_PoolWithinMaxWorkers ==
  /\ Len(model_pool) <= max_workers
  /\ Cardinality(Busy) <= max_workers

\* the pool is full and every handle is busy, each with a running worker
C1_Witness ==
  /\ Len(model_pool) = max_workers
  /\ Cardinality(Busy) = max_workers
  /\ Cardinality(Running) = max_workers

\* C2 as claimed: at any instant the number of busy handles equals the
\* number of running worker tasks.
C2_BusyEqualsRunning == Cardinality(Busy) = Cardinality(Running)

\* C2 as amended: the number of busy handles equals the number of worker
\* tasks that were started and have not yet released their handle, plus one
\* while the dispatch loop has marked a handle busy for a worker it has not
\* started yet.
C2_BusyEqualsRunningOrReserved ==
  Cardinality(Busy) = Cardinality(Running) + (IF d_pc = "spawn" THEN 1 ELSE 0)

\* a handle is reserved next to a running worker, and later both run
C2_Witness ==
  /\ d_pc = "spawn"
  /\ Cardinality(Running) = 1
  /\ Cardinality(Busy) = 2

\* C3: a job is owned by at most one worker task at any instant.
C3_OneWorkerPerJob ==
  \A i, k \in Running :
    i # k => worker_threads[i].itm # worker_threads[k].itm

\* C4: a job that is PENDING_DUPLICATE does not become TRANSCRIBING or
\* COMPLETED; only resolve_duplicate moves it on (to CONVERTED or CANCELLED,
\* or to COMPLETED when the payload holds produced content).
WorkerStep(j) ==
  \E i \in DOMAIN worker_threads :
    /\ worker_threads[i].itm = j
    /\ worker_threads[i].pc # worker_threads'[i].pc
C4_NoTranscribeWhilePendingDuplicate ==
  [][\A j \in Jobs :
       StatusOf(j) = PENDING_DUPLICATE =>
         ~(WorkerStep(j) /\ item'[j].status \in {TRANSCRIBING, COMPLETED})]_vars

\* C5: a source has at most one non-terminal job in the queue.
Terminal == {COMPLETED, FAILED, CANCELLED}
C5_OneJobPerSource ==
  \A j, k \in Queued :
    (j # k /\ locator[j] = locator[k]) =>
       (StatusOf(j) \in Terminal \/ StatusOf(k) \in Terminal)

\* C6: a job in a terminal status stays in a terminal status.
C6_TerminalStaysTerminal ==
  [][\A j \in Jobs :
       StatusOf(j) \in Terminal => item'[j].status \in Terminal]_vars

\* C7: a job cancelled while its worker is inside the inference call is not
\* made COMPLETED by that worker.
C7_CancelledResultDiscarded ==
  [][\A i \in DOMAIN worker_threads :
       (worker_threads[i].pc = "infer"
          /\ StatusOf(worker_threads[i].itm) = CANCELLED)
         => item'[worker_threads[i].itm].status = CANCELLED]_vars

\* C8: the status of a job changes only along the edges
\* Queued -> Acquiring -> Converting -> {Converted | Skipped} ->
\* [DuplicatePending] -> Transcribing -> Completed, the Failed and Cancelled
\* branches from a non-terminal status and the exits of DuplicatePending.
\* The shortcuts of a stage function that has nothing to acquire or to
\* convert (Queued -> Converting, Queued -> Skipped) count as edges too, so
\* a violation is a change that no reading of the edge list allows.
Edges ==
  {<<QUEUED, DOWNLOADING>>, <<DOWNLOADING, CONVERTING>>,
   <<QUEUED, CONVERTING>>, <<QUEUED, SKIPPED>>,
   <<CONVERTING, CONVERTED>>, <<CONVERTING, SKIPPED>>,
   <<CONVERTED, PENDING_DUPLICATE>>, <<SKIPPED, PENDING_DUPLICATE>>,
   <<CONVERTED, TRANSCRIBING>>, <<SKIPPED, TRANSCRIBING>>,
   <<PENDING_DUPLICATE, CONVERTED>>, <<PENDING_DUPLICATE, COMPLETED>>,
   <<PENDING_DUPLICATE, TRANSCRIBING>>, <<TRANSCRIBING, COMPLETED>>}
  \cup {<<s, t>> : s \in QueueStatus \ Terminal, t \in {FAILED, CANCELLED}}
C8_OnlyEdges ==
  [][\A j \in Jobs :
       (Created(j) /\ item'[j].status # StatusOf(j))
         => <<StatusOf(j), item'[j].status>> \in Edges]_vars

\* C9: get_ready_items_for_transcription returns exactly the queued jobs
\* that are CONVERTED or SKIPPED, so never one that is PENDING_DUPLICATE;
\* and each of the two reads from which the dispatch loop builds its ready
\* list yields exactly the jobs that are CONVERTED (then SKIPPED) at that
\* read.
ReadyNow == {j \in Queued : StatusOf(j) \in {CONVERTED, SKIPPED}}
C10_HandleExclusive ==
  /\ \A i, k \in Running :
       i # k => worker_threads[i].mdl # worker_threads[k].mdl
  /\ d_pc = "spawn" => \A i \in Running : worker_threads[i].mdl # cur.mdl

\* a handle that an earlier worker released is reused next to a second
\* running worker
C10_Witness ==
  /\ Cardinality(Running) = 2
  /\ Len(worker_threads) = 2
  /\ \E j \in Jobs : StatusOf(j) \in {COMPLETED, FAILED}

\* ---------------------------------------------------- removal and teardown
ResultOf(item_ids) == remove_items(QueueState, item_ids).result
Total(r) == r.removed + r.cancelled + r.not_found + r.cannot_remove

\* C11: remove_items(ids) classifies every listed id exactly once, so the
\* four counts sum to len(ids); a single id is counted not_found if it is
\* unknown, cancelled if the job is cancellable (can_cancel_item), removed if
\* it is terminal and cannot_remove otherwise; a Queued id together with a
\* Completed id gives {removed: 1, cancelled: 1, not_found: 0,
\* cannot_remove: 0}.
C11_ClassOf(j) ==
  IF ~InQueue(j) THEN [NoResult EXCEPT !.not_found = 1]
  ELSE IF StatusOf(j) \in cancel_states THEN [NoResult EXCEPT !.cancelled = 1]
  ELSE IF StatusOf(j) \in Terminal THEN [NoResult EXCEPT !.removed = 1]
  ELSE [NoResult EXCEPT !.cannot_remove = 1]
C11_CountsClassifyEveryId ==
  /\ \A ids \in IdLists : Total(ResultOf(ids)) = Len(ids)
  /\ \A j \in Jobs : ResultOf(<<j>>) = C11_ClassOf(j)
  /\ \A j, k \in Queued :
       (StatusOf(j) = QUEUED /\ StatusOf(k) = COMPLETED) =>
          ResultOf(<<j, k>>) = [removed |-> 1, cancelled |-> 1,
                                not_found |-> 0, cannot_remove |-> 0]

\* C12: remove_items and the single-item remove endpoint delete a job record
\* only when the job is terminal (COMPLETED, FAILED or CANCELLED) at the
\* moment it is deleted; a job in a non-terminal status is never deleted.
C12_DeleteOnlyTerminal ==
  [][\A j \in Jobs :
       (InQueue(j) /\ ~(\E i \in DOMAIN queue' : queue'[i] = j))
         => item'[j].status \in Terminal]_vars

\* C13: from QUEUED, DOWNLOADING, CONVERTING, CONVERTED, SKIPPED and
\* TRANSCRIBING a cancel request, by the single-item remove endpoint or by
\* remove_items, moves the job to CANCELLED.
CancelFrom == {QUEUED, DOWNLOADING, CONVERTING, CONVERTED, SKIPPED,
               TRANSCRIBING}
C13_CancelFromNonTerminal ==
  \A j \in Queued :
    StatusOf(j) \in CancelFrom =>
      /\ ENABLED (remove_queue_item(j) /\ item'[j].status = CANCELLED)
      /\ remove_items(QueueState, <<j>>).item[j].status = CANCELLED

\* C14: the pool is torn down only in a state where no queued job is in an
\* active status (non-terminal and not PENDING_DUPLICATE, so CONVERTED and
\* SKIPPED count as active) and no worker task is running.
ActiveStatus == QueueStatus \ (Terminal \cup {PENDING_DUPLICATE})
C14_TeardownOnlyWhenIdle ==
  [][(model_pool # <<>> /\ model_pool' = <<>>) =>
        /\ \A j \in Queued : StatusOf(j) \notin ActiveStatus
        /\ Running = {}]_vars

\* C15: a dispatch cycle that starts with no worker task running prunes the
\* bookkeeping list to empty, and when its idle maintenance finds the pool
\* non-empty, the list empty and no queued job non-terminal, it tears the
\* whole pool down.
C15_IdleCycleTearsDown ==
  [][/\ (d_pc = "prune" /\ d_pc' # "prune" /\ Running = {})
          => worker_threads' = <<>>
     /\ (/\ d_pc = "idle" /\ d_pc' = "prune"
         /\ model_pool # <<>>
         /\ worker_threads = <<>>
         /\ \A j \in Queued : StatusOf(j) \in Terminal)
          => model_pool' = <<>>]_vars

\* the pool a finished worker left behind has been torn down: the only job
\* is terminal, no thread is left and the pool is empty
C15_Witness ==
  /\ d_pc = "prune"
  /\ model_pool = <<>>
  /\ worker_threads = <<>>
  /\ Queued # {}
  /\ \A j \in Queued : StatusOf(j) = COMPLETED

C17_FailureRecorded ==
  /\ [](ENABLED Dispatch)
  /\ [][\A i \in DOMAIN worker_threads :
          (/\ worker_threads[i].pc = "infer"
           /\ i \in DOMAIN worker_threads'
           /\ worker_threads'[i].pc = "finally"
           /\ item'[worker_threads[i].itm].status # COMPLETED)
            => /\ item'[worker_threads[i].itm].status = FAILED
               /\ item'[worker_threads[i].itm].error_message # NoneMsg
               /\ UNCHANGED <<dvars, model_pool>>
               /\ \A k \in DOMAIN worker_threads \ {i} :
                    worker_threads'[k] = worker_threads[k]]_vars

\* one job has failed in transcription and the dispatch loop is starting a
\* worker for another ready job
C17_Witness ==
  /\ d_pc = "spawn"
  /\ \E j \in Jobs :
       /\ j # cur.itm
       /\ StatusOf(j) = FAILED
       /\ item[j].error_message = MsgException

\* C18: the job the dispatch loop hands to a worker was inserted before
\* every job still waiting in the same cycle's ready list (ids are given in
\* insertion order).
C18_FifoDispatch ==
  [][(d_pc = "loop" /\ d_pc' = "spawn")
       => \A k \in Range(ready_items') : cur'.itm < k]_vars

\* C19: when the duplicate gate runs for a queued job with a file path, the
\* output name is stem(file_path) + ".txt"; if the transcriptions table has
\* that name the gate returns with the job PENDING_DUPLICATE and the pending
\* payload's name equal to the output name, otherwise it leaves status and
\* payload unchanged.
C19_DuplicateGate ==
  [][\A j \in Jobs :
       /\ (/\ stage[j] = "dupcheck" /\ stage'[j] # "dupcheck"
           /\ InQueue(j) /\ item[j].file_path # NonePath)
            => IF \E r \in transcriptions.rows :
                      r.filename = <<"txt", item[j].file_path[2]>>
                 THEN /\ item'[j].status = PENDING_DUPLICATE
                      /\ stage'[j] = "dup_payload"
                 ELSE /\ item'[j] = item[j]
                      /\ stage'[j] = "done"
       /\ (stage[j] = "dup_payload" /\ stage'[j] = "done")
            => /\ item'[j].status = PENDING_DUPLICATE
               /\ item'[j].pending_transcription # NonePT
               /\ item'[j].pending_transcription[1].filename
                    = <<"txt", item[j].file_path[2]>>]_vars

\* C20: resolve_duplicate with action cancel on a queued PENDING_DUPLICATE
\* job moves it to CANCELLED and clears its pending payload.
C20_CancelResolves ==
  \A j \in Queued :
    StatusOf(j) = PENDING_DUPLICATE =>
      ENABLED (/\ resolve_duplicate(j, "cancel")
               /\ item'[j].status = CANCELLED
               /\ item'[j].pending_transcription = NonePT)

\* ------------------------------------------- resolution and persistence
\* C21: resolve_duplicate with action overwrite on a queued PENDING_DUPLICATE
\* job with a payload leaves no row in the transcriptions table that was
\* there before and has the payload's filename; if the payload holds no
\* content the job becomes CONVERTED with the payload cleared and is among
\* the ready items again, otherwise a row with the payload's content is
\* added and the job becomes COMPLETED.
C21_OverwriteResolves ==
  \A j \in Queued :
    (StatusOf(j) = PENDING_DUPLICATE /\ item[j].pending_transcription # NonePT)
      => LET pt == item[j].pending_transcription[1]
         IN ENABLED
              (/\ resolve_duplicate(j, "overwrite")
               /\ \A r \in transcriptions.rows :
                    r.filename = pt.filename => r \notin transcriptions'.rows
               /\ IF pt.content = "None"
                    THEN /\ item'[j].status = CONVERTED
                         /\ item'[j].pending_transcription = NonePT
                         /\ \E i \in DOMAIN queue' :
                              /\ queue'[i] = j
                              /\ item'[j].status \in ready_statuses
                    ELSE /\ item'[j].status = COMPLETED
                         /\ \E r \in transcriptions'.rows \ transcriptions.rows :
                              /\ r.filename = pt.filename
                              /\ r.content = pt.content)

\* C22: a resolve_duplicate request (overwrite or cancel) for a queued job
\* whose status is not PENDING_DUPLICATE is answered with the
\* not-pending-duplicate error, and one for a PENDING_DUPLICATE job without a
\* payload with the no-pending-payload error; in both cases the request
\* changes neither the job (status, payload, in memory and in its row) nor
\* the transcriptions table.
C22_Rejects(j, a, error) ==
  /\ resolve_error(j) = error
  /\ ENABLED resolve_duplicate(j, a)
  /\ ~ENABLED (/\ resolve_duplicate(j, a)
               /\ <<queue, item, db_items, transcriptions>>'
                    # <<queue, item, db_items, transcriptions>>)
C22_RejectedUnchanged ==
  \A j \in Queued, a \in {"overwrite", "cancel"} :
    /\ StatusOf(j) # PENDING_DUPLICATE
         => C22_Rejects(j, a, "item is not pending duplicate resolution")
    /\ (/\ StatusOf(j) = PENDING_DUPLICATE
        /\ item[j].pending_transcription = NonePT)
         => C22_Rejects(j, a, "no pending transcription data found")

\* one job has been resolved (cancelled) and is no longer pending, another
\* is PENDING_DUPLICATE without a payload: a request for either is rejected
C22_Witness ==
  /\ \E j \in Queued : /\ StatusOf(j) = CANCELLED
                       /\ item[j].error_message = MsgDupCancelled
  /\ \E j \in Queued : /\ StatusOf(j) = PENDING_DUPLICATE
                       /\ item[j].pending_transcription = NonePT

\* C23: of two resolve_duplicate requests for the same job, whatever their
\* actions, at most one gets past the pending-duplicate checks and writes;
\* the other is answered 400 "not pending duplicate resolution", and no
\* request ends in a server error.
Resolving(r) ==
  \/ req[r].pc \notin {"none", "status", "payload", "done"}
  \/ req[r].pc = "done" /\ req[r].code \in {200, 500}
C23_SingleResolution ==
  \A r1, r2 \in Requests :
    (r1 # r2 /\ req[r1].itm = req[r2].itm)
      => /\ ~(Resolving(r1) /\ Resolving(r2))
         /\ (req[r1].pc = "done" /\ req[r1].code = 200
               /\ req[r2].pc = "done")
              => /\ req[r2].code = 400
                 /\ req[r2].error = "item is not pending duplicate resolution"

\* C24: after any sequence of add_item, update_status and update_item_path,
\* a QueueManager constructed now loads exactly the jobs of the queue, each
\* with the id, the status and the source (file_path) it has in memory.
C24_ReloadRoundTrip ==
  /\ Len(LoadedQueue(db_items)) = Len(queue)
  /\ Range(LoadedQueue(db_items)) = Queued
  /\ \A j \in Queued :
       /\ LoadedItem(db_items[j]).status = item[j].status
       /\ LoadedItem(db_items[j]).file_path = item[j].file_path

\* MaxJobs jobs were added; one is in a final state, another had its path
\* and its status updated
C24_Witness ==
  /\ Len(queue) = MaxJobs
  /\ \E j \in Queued : StatusOf(j) = COMPLETED
  /\ \E j \in Queued : /\ StatusOf(j) = CONVERTED
                       /\ item[j].file_path = OggPath("a")

\* C25: in a queue loaded at start-up, a non-terminal job whose file_path
\* names a file that no longer exists is not in a status whose next stage
\* reads the file (CONVERTED or SKIPPED, from which the dispatch loop hands
\* file_path to the transcription).
C25_MissingFileRequeued ==
  \A j \in Queued :
    (/\ StatusOf(j) \notin Terminal
     /\ item[j].file_path # NonePath
     /\ item[j].file_path \notin FilesAfterLoad)
      => StatusOf(j) \notin ready_statuses

\* C26: the status a job has in memory is the status of its row, that is
\* of the last write that was committed.
C26_MemoryMatchesCommitted ==
  \A j \in Queued : item[j].status = db_items[j].status

\* C27: in every reachable state, a job's error_message is set only if its
\* status is FAILED.
C27_MessageOnlyWhenFailed ==
  \A j \in Jobs :
    (Created(j) /\ item[j].error_message # NoneMsg) => StatusOf(j) = FAILED

\* C28: in every reachable state, a job's pending_transcription is
\* populated only while its status is PENDING_DUPLICATE, in the item in
\* memory and in the job's row of queue_items.
C28_PayloadOnlyWhilePending ==
  \A j \in Jobs :
    /\ item[j].pending_transcription # NonePT
         => item[j].status = PENDING_DUPLICATE
    /\ db_items[j].pending_transcription # NonePT
         => db_items[j].status = PENDING_DUPLICATE

\* ------------------------------------------------- the pipeline service
\* C29: a trigger_transcription request is answered 409, with no task added
\* and the status snapshot unchanged, whenever the status is not idle,
\* completed or completed_with_errors; otherwise 200 with status idle and no
\* task added when list.txt is empty; otherwise 202, with the snapshot reset
\* to status queued, progress 0/0 and empty lists, and exactly one pipeline
\* task added.
C29_TriggerOutcome ==
  [][trigger_transcription_processing =>
       IF transcription_status.status
            \notin {"idle", "completed", "completed_with_errors"}
         THEN /\ response'.code = 409
              /\ tasks' = tasks
              /\ transcription_status' = transcription_status
         ELSE IF Len(list_file) = 0
           THEN /\ response'.code = 200
                /\ response'.status = "idle"
                /\ tasks' = tasks
           ELSE /\ response'.code = 202
                /\ transcription_status' =
                     [status |-> "queued", progress |-> <<0, 0>>,
                      processed_videos |-> <<>>, failed_urls |-> <<>>]
                /\ Len(tasks') = Len(tasks) + 1
                /\ \A i \in DOMAIN tasks : tasks'[i] = tasks[i]
                /\ tasks'[Len(tasks')].pc = "scheduled"]_vars

\* a trigger was refused after the pipeline had ended in status error, and
\* no task is alive
C29_Witness ==
  /\ response.op = "trigger"
  /\ response.code = 409
  /\ transcription_status.status = "error"
  /\ tasks = <<>>

\* C30: in every reachable state, whatever the status, a clear_list request
\* leaves list.txt empty and the status snapshot equal to the initial one
\* (status idle, progress 0/0, no processed videos, no failed urls).
C30_ClearResets ==
  /\ ENABLED clear_list_file
  /\ ~ENABLED (/\ clear_list_file
               /\ ~(/\ list_file' = <<>>
                    /\ transcription_status' =
                         [status |-> "idle", progress |-> <<0, 0>>,
                          processed_videos |-> <<>>, failed_urls |-> <<>>]))

\* clear_list was called while a pipeline task was in its transcription
\* phase, with a failed url recorded before the call
C30_Witness ==
  /\ response.op = "clear_list"
  /\ list_file = <<>>
  /\ transcription_status.status = "idle"
  /\ \E t \in DOMAIN tasks : tasks[t].pc = "final"

\* C31: whenever the final step of a pipeline run leaves no failed url, the
\* status it leaves is completed and the progress is N/N, N being the number
\* of urls the run read from list.txt.
C31_CompletedReadsAllDone ==
  [][\A t \in DOMAIN tasks :
       (PipelineFinal(t) /\ transcription_status'.failed_urls = <<>>)
         => /\ transcription_status'.status = "completed"
            /\ transcription_status'.progress =
                 <<Len(tasks[t].urls), Len(tasks[t].urls)>>]_vars

\* C40: in every reachable state at most one pipeline task has started and
\* not yet returned.
C40_SingleRun ==
  Cardinality({t \in DOMAIN tasks : tasks[t].pc # "scheduled"}) <= 1

\* ------------------------------------------------------- worker counts
\* C32: while max_workers is 0 the dispatch loop never counts a free slot,
\* never takes a job or a handle and never starts a worker (no thread, no
\* pool entry, no job TRANSCRIBING), none of its steps changes a job or the
\* pool, and one of its steps is always possible.
C32_PausedNeverDispatches ==
  /\ [](max_workers = 0 =>
          /\ available_slots = 0
          /\ cur = NoCur
          /\ worker_threads = <<>>
          /\ model_pool = <<>>
          /\ \A j \in Jobs : item[j].status # TRANSCRIBING
          /\ ENABLED Dispatch)
  /\ [][(max_workers = 0 /\ Dispatch) => UNCHANGED <<qvars, pvars>>]_vars

\* with max_workers 0 the loop is in its idle step while a CONVERTED and a
\* SKIPPED job, both past their stage threads, wait in the queue
C32_Witness ==
  /\ max_workers = 0
  /\ d_pc = "idle"
  /\ \E j, k \in Jobs :
       /\ InQueue(j) /\ item[j].status = CONVERTED /\ stage[j] = "done"
       /\ InQueue(k) /\ item[k].status = SKIPPED /\ stage[k] = "done"

\* C33: with max_workers >= 1 and the dispatch loop and the workers
\* scheduled fairly, a job that is CONVERTED or SKIPPED is eventually
\* COMPLETED or FAILED, unless it is gated as a duplicate
\* (PENDING_DUPLICATE) or cancelled (CANCELLED) first.
C33_ReadyJobTerminates ==
  \A j \in Jobs :
    (max_workers >= 1 /\ item[j].status \in {CONVERTED, SKIPPED})
      ~> (item[j].status \in {COMPLETED, FAILED, PENDING_DUPLICATE, CANCELLED})

\* C34: every job that the restarted process loaded in a status that is
\* neither terminal nor PENDING_DUPLICATE eventually has a terminal status.
C34_LoadedJobRecovered ==
  \A j \in Jobs :
    (InQueue(j) /\ item[j].status \in ActiveStatus)
      => <>(item[j].status \in Terminal)

\* C35: in every reachable state a queued job whose status is
\* PENDING_DUPLICATE holds a payload that names the output file of its
\* file_path, the item loaded from its persisted record holds a payload too,
\* and a resolve_duplicate request for it is not refused for a missing
\* payload.
C35_PendingCarriesPayload ==
  \A j \in Jobs :
    (InQueue(j) /\ item[j].status = PENDING_DUPLICATE) =>
      /\ item[j].pending_transcription # NonePT
      /\ item[j].pending_transcription[1].filename =
           OutputFilename(item[j].file_path)
      /\ LoadedItem(db_items[j]).status = PENDING_DUPLICATE
           => LoadedItem(db_items[j]).pending_transcription # NonePT
      /\ resolve_error(j) # "no pending transcription data found"

\* C36: in every reachable state a job that remove_item has taken out of the
\* queue has no row in queue_items, so a reload does not bring it back.
C36_RemovedStaysRemoved ==
  \A j \in Jobs :
    (Created(j) /\ ~InQueue(j)) =>
      /\ db_items[j] = NoRec
      /\ j \notin Range(LoadedQueue(db_items))

\* C37: no step empties a pool in which a handle is busy, and whenever a
\* worker's finally block runs, the index it was given at dispatch is an
\* index of the pool and the entry there holds the model it was given.
C37_IndexStillValid ==
  [][/\ (model_pool # <<>> /\ model_pool' = <<>>) => Busy = {}
     /\ \A i \in DOMAIN worker_threads :
          WorkerRelease(i) =>
            /\ worker_threads[i].mdl_idx \in DOMAIN model_pool
            /\ model_pool[worker_threads[i].mdl_idx].model =
                 worker_threads[i].mdl]_vars

\* ------------------------------------------------- VideoProcessingQueue
\* C38: a get_next_item call made while a processing item exists returns
\* None and leaves the queue, the processing item and the file as they are;
\* made while none exists and the queue is not empty, it returns the oldest
\* queued item (the first of the queue, which has the smallest id), takes it
\* out of the queue, makes it the processing item and sets its status to
\* DOWNLOADING; made on an empty queue it returns None.
C38_OneItemAtATime ==
  [][get_next_item =>
       IF processing_item # <<>> \/ video_queue = <<>>
         THEN /\ returned'.value = <<>>
              /\ UNCHANGED <<video_queue, processing_item, queue_file>>
         ELSE /\ returned'.value = processing_item'
              /\ processing_item' =
                   <<[Head(video_queue) EXCEPT !.status = DOWNLOADING]>>
              /\ \A i \in DOMAIN video_queue :
                   processing_item'[1].id <= video_queue[i].id
              /\ video_queue' = Tail(video_queue)]_vars

\* get_next_item returned None although an item is queued, because another
\* item is being processed
C38_Witness ==
  /\ returned = [op |-> "get_next_item", value |-> <<>>]
  /\ processing_item # <<>>
  /\ video_queue # <<>>

\* C39: in every reachable state the urls of the queued items and of the
\* processing item are pairwise different.
C39_NoUrlTwice ==
  LET all == video_queue \o processing_item
  IN \A i, k \in DOMAIN all : all[i].url = all[k].url => i = k

\* add_custom_video refused a url because the item being processed has it,
\* while another url is queued
C39_Witness ==
  /\ returned = [op |-> "add_custom_video", value |-> FALSE]
  /\ processing_item # <<>>
  /\ video_queue # <<>>
  /\ \A i \in DOMAIN video_queue : video_queue[i].url # processing_item[1].url

====
